---- MODULE Spec2Model ----
(***************************************************************************)
(* A model of the content store of ai.cli: the content item classes        *)
(* (ContentItem, Rule, Workflow, Profile), their save/load serialisation,  *)
(* the ContentManager's add/get/list/delete operations over a directory   *)
(* tree and its sync_to_tool orchestration (src/ai_cli/core/content.py),   *)
(* and the tool adapters' sync_item (src/ai_cli/tools).                    *)
(*                                                                         *)
(* The file system is case-sensitive (POSIX).  Names are sequences of      *)
(* one-character strings so that str.lower() and str.replace(' ', '_')     *)
(* are computed character by character.                                    *)
(***************************************************************************)
EXTENDS Integers, Sequences, FiniteSets, TLC

VARIABLES
    fs,     \* the files that exist: absolute path -> file text
    dirs,   \* the directories that exist (absolute directory paths)
    last    \* the last call made on the store: operation, arguments and outcome

vars == <<fs, dirs, last>>

(***************************************************************************)
(* Bounds of the model.                                                    *)
(***************************************************************************)
\* The largest number of files the file system holds.
MaxFiles == 2

(***************************************************************************)
(* ContentType (enum): a member is identified with its value, which is     *)
(* also the name of its subdirectory.                                      *)
(***************************************************************************)
RULE == "rules"
WORKFLOW == "workflows"
PROFILE == "profiles"
GLOBAL_RULE == "global_rules"
PROJECT_RULE == "project_rules"
AMAZONQ_PROFILE == "amazonq_profiles"
WINDSURF_WORKFLOW == "windsurf_workflows"

ContentType ==
    {RULE, WORKFLOW, PROFILE, GLOBAL_RULE, PROJECT_RULE, AMAZONQ_PROFILE, WINDSURF_WORKFLOW}

\* The three content-type families load() dispatches on.
RuleFamily == {RULE, GLOBAL_RULE, PROJECT_RULE}
WorkflowFamily == {WORKFLOW, WINDSURF_WORKFLOW}
ProfileFamily == {PROFILE, AMAZONQ_PROFILE}

(***************************************************************************)
(* Input values.                                                           *)
(***************************************************************************)
\* Names: the empty name, and names that differ in letter case only or in
\* space versus underscore only.
NameValues ==
    { <<>>, <<"a", "b">>, <<"A", "b">>, <<"a", " ", "b">>, <<"a", "_", "b">> }

\* A content payload: a mapping (with its string keys, its integer keys and a
\* tag standing for the values it holds) or a value that is not a mapping.
Dict(skeys, ikeys, val) == [kind |-> "dict", skeys |-> skeys, ikeys |-> ikeys, val |-> val]
NotADict == [kind |-> "list", skeys |-> {}, ikeys |-> {}, val |-> "v1"]

ContentValues ==
    { Dict({"description"}, {}, "v1"),
      Dict({"description"}, {}, "v2"),
      Dict({"steps"}, {}, "v1"),
      Dict({"description"}, {1}, "v1"),
      NotADict }

\* Metadata: a mapping, given by its keys.
MetadataValues == { {}, {"author"} }

\* The tool attribute of a Profile ("" is the empty string).
ToolValues == { "", "q-cli" }
\* An item of a class without a tool attribute.
NoTool == "<no attribute>"

(***************************************************************************)
(* Paths.  A path is the sequence of its directory components, and the     *)
(* stem and suffix of its final component; a directory path has no final   *)
(* component.  Absolute paths start at "/".                                *)
(***************************************************************************)
Path(d, stem, ext) == [dirs |-> d, stem |-> stem, ext |-> ext]
DirPath(d) == Path(d, <<>>, "")

\* The manager's base directory and the process's working directory.
BaseDir == <<"/", "base">>
Cwd == <<"/", "cwd">>

is_absolute(p) == Len(p.dirs) > 0 /\ p.dirs[1] = "/"

\* The file a path names, as open() and exists() resolve it.
Resolve(p) == IF is_absolute(p) THEN p ELSE Path(Cwd \o p.dirs, p.stem, p.ext)

\* pathlib's base / other.
Join(base, other) ==
    IF is_absolute(other) THEN other
    ELSE Path(base.dirs \o other.dirs, other.stem, other.ext)

\* Path.suffix: directory names of the model carry no suffix.
suffix(p) == p.ext

\* Path.parent, as a directory (sequence of components), and Path.parent.name.
parent(p) == p.dirs
parent_name(p) == IF Len(p.dirs) = 0 THEN "" ELSE p.dirs[Len(p.dirs)]

\* Path.with_suffix(ext); an empty final component raises ValueError.
with_suffix(p, ext) == Path(p.dirs, p.stem, ext)

IsPrefix(s, t) == Len(s) <= Len(t) /\ SubSeq(t, 1, Len(s)) = s

\* All ancestors of a directory, itself included (mkdir(parents=True)).
Ancestors(d) == { SubSeq(d, 1, k) : k \in 1..Len(d) }

(***************************************************************************)
(* str.lower() and str.replace(' ', '_') on names.                         *)
(***************************************************************************)
LowerChar(c) == IF c = "A" THEN "a" ELSE IF c = "B" THEN "b" ELSE c

RECURSIVE str_lower(_)
str_lower(s) ==
    IF s = <<>> THEN <<>> ELSE <<LowerChar(Head(s))>> \o str_lower(Tail(s))

RECURSIVE str_replace_space(_)
str_replace_space(s) ==
    IF s = <<>> THEN <<>>
    ELSE <<IF Head(s) = " " THEN "_" ELSE Head(s)>> \o str_replace_space(Tail(s))

\* f"{self.name.lower().replace(' ', '_')}"
default_stem(name) == str_replace_space(str_lower(name))

\* The default extension save() picks for a content type.
default_ext(content_type) ==
    IF content_type \in {RULE, WORKFLOW, PROFILE} THEN ".yaml" ELSE ".json"

(***************************************************************************)
(* Content items and results of calls.                                     *)
(***************************************************************************)
\* item.path is <<>> (None) or <<p>>.
Item(cls, name, content, content_type, metadata, tool, path) ==
    [cls |-> cls, name |-> name, content |-> content, content_type |-> content_type,
     metadata |-> metadata, tool |-> tool, path |-> path]

NoItem == Item("", <<>>, NotADict, "", {}, NoTool, <<>>)

Ok(item) == [tag |-> "ok", item |-> item, exc |-> ""]
Raise(exc) == [tag |-> "raise", item |-> NoItem, exc |-> exc]
None == [tag |-> "none", item |-> NoItem, exc |-> ""]
True == [tag |-> "true", item |-> NoItem, exc |-> ""]
False == [tag |-> "false", item |-> NoItem, exc |-> ""]

(***************************************************************************)
(* validate(), per class.                                                  *)
(***************************************************************************)
\* ContentItem.validate: "" when valid, else the exception raised.
ContentItem_validate(item) ==
    IF item.name = <<>> THEN "ValueError"
    ELSE IF item.content.kind # "dict" THEN "ValueError"
    ELSE ""

Rule_validate(item) ==
    IF ContentItem_validate(item) # "" THEN ContentItem_validate(item)
    ELSE IF item.content.kind # "dict" THEN "ValueError"
    ELSE ""

Workflow_validate_NoStepsCheck(item) ==
    ContentItem_validate(item)

Workflow_validate(item) ==
    IF ContentItem_validate(item) # "" THEN ContentItem_validate(item)
    ELSE IF item.content.kind # "dict" \/ "steps" \notin item.content.skeys THEN "ValueError"
    ELSE ""

Profile_validate(item) ==
    IF ContentItem_validate(item) # "" THEN ContentItem_validate(item)
    ELSE IF item.tool = "" THEN "ValueError"
    ELSE IF item.content.kind # "dict" THEN "ValueError"
    ELSE ""

validate(item) ==
    CASE item.cls = "Rule" -> Rule_validate(item)
      [] item.cls = "Workflow" -> Workflow_validate(item)
      [] item.cls = "Profile" -> Profile_validate(item)
      [] OTHER -> ContentItem_validate(item)

\* __post_init__: validation runs at the end of construction.
post_init(item) == IF validate(item) = "" THEN Ok(item) ELSE Raise(validate(item))

(***************************************************************************)
(* Constructors.                                                           *)
(***************************************************************************)
\* Rule(name, content, content_type=RULE, path=None, metadata={})
Rule(name, content, content_type, metadata) ==
    post_init(Item("Rule", name, content, content_type, metadata, NoTool, <<>>))

\* Workflow(name, content, path=None, metadata={}): content_type is not an
\* argument of the constructor (init=False) and is always WORKFLOW.
Workflow(name, content, metadata) ==
    post_init(Item("Workflow", name, content, WORKFLOW, metadata, NoTool, <<>>))

\* Profile(name, tool, content, path=None, metadata=None): content_type is
\* always PROFILE.
Profile(name, tool, content, metadata) ==
    post_init(Item("Profile", name, content, PROFILE, metadata, tool, <<>>))

\* Every item a constructor call of the input values yields.
ValidItems ==
    { r.item : r \in
        { x \in { Rule(n, c, t, m) : n \in NameValues, c \in ContentValues,
                                     t \in ContentType, m \in MetadataValues }
               \cup { Workflow(n, c, m) : n \in NameValues, c \in ContentValues,
                                          m \in MetadataValues }
               \cup { Profile(n, tl, c, m) : n \in NameValues, tl \in ToolValues,
                                             c \in ContentValues, m \in MetadataValues }
            : x.tag = "ok" } }

(***************************************************************************)
(* File texts: what yaml.dump / json.dump write and what yaml.safe_load /  *)
(* json.load read back.  A document is a mapping with some of the keys     *)
(* name, content, content_type, metadata.                                  *)
(***************************************************************************)
Doc(keys, name, content, content_type, metadata) ==
    [keys |-> keys, name |-> name, content |-> content,
     content_type |-> content_type, metadata |-> metadata]

NoDoc == Doc({}, <<>>, NotADict, "", {})

\* The text of a file that open(path, 'w') has just created or truncated.
EmptyText == [fmt |-> "empty", data |-> NoDoc]
\* A text that neither parser accepts.
GarbageText == [fmt |-> "garbage", data |-> NoDoc]

\* JSON object keys are strings: json.dump writes an integer key as its
\* decimal string.
json_content(c) ==
    [c EXCEPT !.skeys = c.skeys \cup { ToString(k) : k \in c.ikeys }, !.ikeys = {}]

yaml_dump(data) == [fmt |-> "yaml", data |-> data]
json_dump(data) == [fmt |-> "json", data |-> [data EXCEPT !.content = json_content(@)]]

Parsed(data) == [tag |-> "ok", data |-> data, exc |-> ""]
ParsedNone == [tag |-> "none", data |-> NoDoc, exc |-> ""]
ParseError(exc) == [tag |-> "raise", data |-> NoDoc, exc |-> exc]

\* yaml.safe_load: JSON text is YAML flow syntax; an empty stream is None.
yaml_safe_load(text) ==
    CASE text.fmt \in {"yaml", "json"} -> Parsed(text.data)
      [] text.fmt = "empty" -> ParsedNone
      [] OTHER -> ParseError("YAMLError")

\* json.load: block-style YAML, the empty text and garbage are not JSON.
json_load(text) ==
    IF text.fmt = "json" THEN Parsed(text.data) ELSE ParseError("JSONDecodeError")

(***************************************************************************)
(* to_dict / from_dict / load.                                             *)
(***************************************************************************)
\* ContentItem.to_dict (no subclass overrides it): the document of an item.
to_dict(item) ==
    Doc({"name", "content_type", "content", "metadata"},
        item.name, item.content, item.content_type, item.metadata)

\* cls.from_dict(data), for cls in Rule, Workflow, Profile, ContentItem.  The
\* call is cls(name=, content_type=, content=, metadata=): Workflow's and
\* Profile's constructors take no content_type argument, so binding the
\* arguments raises TypeError before any validation.
from_dict(cls, data) ==
    LET ct == IF "content_type" \in data.keys THEN data.content_type ELSE RULE
        md == IF "metadata" \in data.keys THEN data.metadata ELSE {}
    IN  IF ct \notin ContentType THEN Raise("ValueError")
        ELSE IF "name" \notin data.keys THEN Raise("KeyError")
        ELSE IF "content" \notin data.keys THEN Raise("KeyError")
        ELSE CASE cls = "Rule" -> Rule(data.name, data.content, ct, md)
               [] cls = "Workflow" -> Raise("TypeError")
               [] cls = "Profile" -> Raise("TypeError")
               [] OTHER -> post_init(Item("ContentItem", data.name, data.content,
                                          ct, md, NoTool, <<>>))

\* The class load() dispatches to for a content type.
load_class(content_type) ==
    IF content_type \in {RULE, GLOBAL_RULE, PROJECT_RULE} THEN "Rule"
    ELSE IF content_type \in {WORKFLOW, WINDSURF_WORKFLOW} THEN "Workflow"
    ELSE IF content_type \in {PROFILE, AMAZONQ_PROFILE} THEN "Profile"
    ELSE "ContentItem"

\* ContentItem.load(filepath) on the files f.
load(f, filepath) ==
    LET p == Resolve(filepath)
        parsed == IF suffix(filepath) \in {".yaml", ".yml"} THEN yaml_safe_load(f[p])
                  ELSE json_load(f[p])
        inferred == IF parent_name(filepath) \in ContentType
                    THEN parent_name(filepath) ELSE RULE
        data == IF "content_type" \in parsed.data.keys THEN parsed.data
                ELSE [parsed.data EXCEPT !.keys = @ \cup {"content_type"},
                                         !.content_type = inferred]
        made == from_dict(load_class(data.content_type), data)
    IN  IF p \notin DOMAIN f THEN Raise("FileNotFoundError")
        ELSE IF suffix(filepath) \notin {".yaml", ".yml", ".json"} THEN Raise("ValueError")
        ELSE IF parsed.tag = "raise" THEN Raise(parsed.exc)
        ELSE IF parsed.tag = "none" THEN Raise("TypeError")
        ELSE IF data.content_type \notin ContentType THEN Raise("ValueError")
        ELSE IF made.tag # "ok" THEN made
        ELSE Ok([made.item EXCEPT !.path = <<filepath>>])

(***************************************************************************)
(* ContentItem.save(base_dir=None, filename=None).  base_dir and filename  *)
(* are <<>> (None) or <<path>>.  An extension-less filename is given as a  *)
(* directory path, and only together with a base_dir.                      *)
(***************************************************************************)
\* The destination save() resolves (lines 92-146).
save_path(item, base_dir, filename) ==
    LET special == filename = <<>> /\ base_dir # <<>>
                   /\ suffix(base_dir[1]) \in {".yaml", ".yml", ".json"}
        \* the special case resets base_dir; the branches below then choose
        \* the destination again
        bd == IF special THEN <<>> ELSE base_dir
        ext == default_ext(item.content_type)
        \* f"{name}{ext}"; for an empty name that is the bare ".yaml", which
        \* to pathlib is a stem without a suffix
        default_filename == IF default_stem(item.name) = <<>> THEN Path(<<>>, <<ext>>, "")
                            ELSE Path(<<>>, default_stem(item.name), ext)
        chosen ==
            IF filename # <<>> THEN
                IF bd # <<>> THEN
                    IF is_absolute(filename[1]) THEN filename[1]
                    ELSE IF suffix(filename[1]) # "" THEN Join(bd[1], filename[1])
                    ELSE Join(Join(bd[1], filename[1]), default_filename)
                ELSE filename[1]
            ELSE IF item.path # <<>> THEN item.path[1]
            ELSE IF bd # <<>> THEN Join(bd[1], default_filename)
            ELSE default_filename
    IN  IF suffix(chosen) = "" THEN with_suffix(chosen, ext) ELSE chosen

\* The outcome of save() on files f and directories d: the result (the item
\* with its new path, or the exception) and the files and directories left.
save(item, base_dir, filename, f, d) ==
    LET dest == save_path(item, base_dir, filename)
        target == Resolve(dest)
        made == d \cup Ancestors(parent(target))
        data == Doc({"name", "content", "content_type", "metadata"},
                    item.name, item.content, item.content_type, item.metadata)
        opened == [q \in DOMAIN f \cup {target} |-> IF q = target THEN EmptyText ELSE f[q]]
        text == IF suffix(dest) \in {".yaml", ".yml"} THEN yaml_dump(data)
                ELSE json_dump(data)
    IN  IF base_dir = <<>> /\ item.path = <<>> /\ filename = <<>>
        THEN [res |-> Raise("ValueError"), fs |-> f, dirs |-> d]
        ELSE IF suffix(dest) \notin {".yaml", ".yml", ".json"}
        THEN [res |-> Raise("ValueError"), fs |-> opened, dirs |-> made]
        ELSE [res |-> Ok([item EXCEPT !.path = <<dest>>]),
              fs |-> [opened EXCEPT ![target] = text], dirs |-> made]

(***************************************************************************)
(* ContentManager.                                                         *)
(***************************************************************************)
\* self.content_dirs[content_type]
content_dirs(content_type) == DirPath(BaseDir \o <<content_type>>)

\* ContentManager.__init__: the directories created eagerly.
InitDirs == UNION { Ancestors(content_dirs(t).dirs) : t \in ContentType }

\* glob(f"**/{name}{ext}") under a directory: the files of that name in the
\* directory itself or in any directory below it.
glob_recursive(f, dir, name, ext) ==
    { p \in DOMAIN f : IsPrefix(dir.dirs, p.dirs) /\ p.stem = name /\ p.ext = ext }

\* glob(f"*{ext}") in a directory: its direct children with that suffix.
glob_direct(f, dir, ext) ==
    { p \in DOMAIN f : p.dirs = dir.dirs /\ p.ext = ext }

\* get_item: the outcomes it can have.  The extensions are tried in a fixed
\* order; for each, the direct path first, then the first match glob yields,
\* whose enumeration order the file system decides.
RECURSIVE get_item_from(_, _, _, _)
get_item_from(f, content_type, name, exts) ==
    IF exts = <<>> THEN { None }
    ELSE LET ext == Head(exts)
             dir == content_dirs(content_type)
             filepath == Join(dir, Path(<<>>, name, ext))
             found == glob_recursive(f, dir, name, ext)
         IN  IF filepath \in DOMAIN f THEN { load(f, filepath) }
             ELSE IF found # {} THEN { load(f, q) : q \in found }
             ELSE get_item_from(f, content_type, name, Tail(exts))

\* get_item with the extensions tried in the opposite order.
get_item_JsonFirst(f, content_type, name) ==
    get_item_from(f, content_type, name, <<".json", ".yml", ".yaml">>)

\* get_item(content_type, name): the extensions in the order of the code.
get_item(f, content_type, name) ==
    get_item_from(f, content_type, name, <<".yaml", ".yml", ".json">>)

\* All orders in which a set of paths can be enumerated.
RECURSIVE Enumerations(_)
Enumerations(S) ==
    IF S = {} THEN { <<>> }
    ELSE UNION { { <<x>> \o rest : rest \in Enumerations(S \ {x}) } : x \in S }

ListOk(items) == [tag |-> "ok", items |-> items, exc |-> ""]
ListRaise(exc) == [tag |-> "raise", items |-> <<>>, exc |-> exc]

\* The body of list_items' loop over the files, without its try/except: the
\* first file that fails to load ends the call.
RECURSIVE list_loop_NoTry(_, _, _)
list_loop_NoTry(f, files, items) ==
    IF files = <<>> THEN ListOk(items)
    ELSE LET r == load(f, Head(files))
         IN  IF r.tag = "ok" THEN list_loop_NoTry(f, Tail(files), Append(items, r.item))
             ELSE ListRaise(r.exc)

\* The body of list_items' loop over the files: a file that fails to load is
\* logged and skipped.
RECURSIVE list_loop(_, _, _)
list_loop(f, files, items) ==
    IF files = <<>> THEN ListOk(items)
    ELSE LET r == load(f, Head(files))
         IN  IF r.tag = "ok" THEN list_loop(f, Tail(files), Append(items, r.item))
             ELSE list_loop(f, Tail(files), items)

\* list_items(content_type) with the default pattern '*': the outcomes it
\* can have, one per enumeration order of each glob.
list_items(f, content_type) ==
    LET dir == content_dirs(content_type)
    IN  { list_loop(f, y \o m \o j, <<>>) :
            y \in Enumerations(glob_direct(f, dir, ".yaml")),
            m \in Enumerations(glob_direct(f, dir, ".yml")),
            j \in Enumerations(glob_direct(f, dir, ".json")) }

\* The files delete_item leaves when unlink succeeds, but with the unlink
\* left out.
unlink_Missing(f, p) == f

\* Path.unlink() of an existing file.
unlink(f, p) == [q \in DOMAIN f \ {Resolve(p)} |-> f[q]]

\* add_item(item, overwrite), given the outcome `existing` of its get_item
\* call: the result and the files and directories left.
add_item(f, d, item, overwrite, existing) ==
    IF existing.tag = "raise" THEN [res |-> existing, fs |-> f, dirs |-> d]
    ELSE IF existing.tag = "ok" /\ ~overwrite
    THEN [res |-> Raise("FileExistsError"), fs |-> f, dirs |-> d]
    ELSE save(item, <<content_dirs(item.content_type)>>, <<>>, f, d)

\* delete_item removing with the item's file every file of the same stem, in
\* whichever directory of the store it lies.
delete_item_Cascade(f, item, unlink_fails) ==
    IF item.tag = "raise" THEN [res |-> item, fs |-> f]
    ELSE IF item.tag = "none" \/ item.item.path = <<>> THEN [res |-> False, fs |-> f]
    ELSE IF unlink_fails THEN [res |-> False, fs |-> f]
    ELSE [res |-> True,
          fs |-> [q \in { p \in DOMAIN f : p.stem # Resolve(item.item.path[1]).stem } |-> f[q]]]

\* delete_item(content_type, name), given the outcome `item` of its get_item
\* call and whether unlink fails with an I/O error.
delete_item(f, item, unlink_fails) ==
    IF item.tag = "raise" THEN [res |-> item, fs |-> f]
    ELSE IF item.tag = "none" \/ item.item.path = <<>> THEN [res |-> False, fs |-> f]
    ELSE IF unlink_fails THEN [res |-> False, fs |-> f]
    ELSE [res |-> True, fs |-> unlink(f, item.item.path[1])]

(***************************************************************************)
(* The state machine.                                                      *)
(***************************************************************************)
EmptyFS == [q \in {} |-> EmptyText]

\* The record of a call: its operation and arguments, the outcome `pre` of
\* the get_item call it starts with (add, delete), and its result; for a
\* sync, also the adapter, whether a progress callback was passed, what each
\* sync_item call did, the items sync_item was called with, the percentages
\* reported, and whether an exception was caught; for a sync_item call, the
\* adapter, the item and the I/O failure the call met; for a sync pass of a
\* concrete adapter, the I/O failure each sync_item call met and whether the
\* call before it was a pass of the same adapter; for a sync with a progress
\* callback that may raise, the invocations at which it raises.
NoCall ==
    [op |-> "none", ctype |-> "", name |-> <<>>, item |-> NoItem, overwrite |-> FALSE,
     base_dir |-> <<>>, filename |-> <<>>, pre |-> None, res |-> None, items |-> <<>>,
     adapter |-> [cls |-> "", supported |-> {}, supported_raises |-> FALSE, outcomes |-> {}],
     callback |-> FALSE, outcomes |-> <<>>,
     calls |-> <<>>, progress |-> <<>>, raised |-> FALSE, io |-> "ok",
     ios |-> <<>>, repeat |-> FALSE, raises_at |-> {}]

\* The content types the store operations are called with: both default
\* extensions (.yaml, .json) and the three families.  The directories of
\* different types never share a file, so the others behave like these.
StoreTypes == { RULE, GLOBAL_RULE, WORKFLOW, PROFILE }

\* The items the store operations are called with: rules of every name, a
\* rule with a second payload, a rule stored as JSON with and without an
\* integer key, a workflow and a profile.
StoreItems ==
    { i \in ValidItems :
        \/ /\ i.cls = "Rule" /\ i.content_type = RULE /\ i.metadata = {}
           /\ i.content = Dict({"description"}, {}, "v1")
        \/ /\ i.cls = "Rule" /\ i.content_type = RULE /\ i.metadata = {}
           /\ i.name = <<"a", "b">> /\ i.content = Dict({"description"}, {}, "v2")
        \/ /\ i.cls = "Rule" /\ i.content_type = GLOBAL_RULE /\ i.metadata = {}
           /\ i.name = <<"a", "b">> /\ "description" \in i.content.skeys /\ i.content.val = "v1"
        \/ /\ i.cls = "Workflow" /\ i.metadata = {} /\ i.name = <<"a", "b">>
        \/ /\ i.cls = "Profile" /\ i.metadata = {} /\ i.name = <<"a", "b">>
           /\ i.content = Dict({"description"}, {}, "v1") }

\* The names get_item and delete_item are called with.
LookupNames == NameValues \ { <<>> }

\* The <<type, name>> pairs get_item and delete_item are called with: those
\* of the items above, whether or not they are stored at the time.
Lookups == { <<i.content_type, i.name>> : i \in StoreItems }

\* Direct save() calls write into the rules directory, under any supported
\* extension or into a sub-directory: a rule, and a workflow (a document the
\* rules directory then holds but load() cannot build an item from).
SubDirNames == { "s1", "s2" }
SaveDir == content_dirs(RULE)
SaveItems ==
    { i \in ValidItems :
        /\ i.name = <<"a", "b">> /\ i.metadata = {}
        /\ \/ i.cls = "Rule" /\ i.content_type = RULE
              /\ i.content = Dict({"description"}, {}, "v2")
           \/ i.cls = "Workflow" }
SaveFilenames(item) ==
    IF item.cls = "Rule"
    THEN { Path(<<>>, item.name, e) : e \in {".yaml", ".yml", ".json"} }
         \cup { Path(<<sd>>, item.name, ".yaml") : sd \in SubDirNames }
    ELSE { Path(<<>>, item.name, e) : e \in {".yml", ".json"} }

Init ==
    /\ fs = EmptyFS
    /\ dirs = InitDirs
    /\ last = NoCall

\* manager.add_item(item, overwrite)
AddItem ==
    \E item \in StoreItems, overwrite \in BOOLEAN :
      \E existing \in get_item(fs, item.content_type, item.name) :
        LET out == add_item(fs, dirs, item, overwrite, existing)
        IN  /\ Cardinality(DOMAIN out.fs) <= MaxFiles
            /\ fs' = out.fs
            /\ dirs' = out.dirs
            /\ last' = [NoCall EXCEPT !.op = "add", !.ctype = item.content_type,
                                      !.name = item.name, !.item = item,
                                      !.overwrite = overwrite, !.pre = existing,
                                      !.res = out.res]

\* manager.get_item(content_type, name)
GetItem ==
    \E tn \in Lookups :
      \E r \in get_item(fs, tn[1], tn[2]) :
        /\ last' = [NoCall EXCEPT !.op = "get", !.ctype = tn[1], !.name = tn[2], !.res = r]
        /\ UNCHANGED <<fs, dirs>>

\* manager.list_items(content_type)
ListItems ==
    \E t \in StoreTypes :
      \E r \in list_items(fs, t) :
        /\ last' = [NoCall EXCEPT !.op = "list", !.ctype = t,
                                  !.res = IF r.tag = "ok" THEN None ELSE Raise(r.exc),
                                  !.items = r.items]
        /\ UNCHANGED <<fs, dirs>>

\* manager.delete_item(content_type, name)
DeleteItem ==
    \E tn \in Lookups :
      \E item \in get_item(fs, tn[1], tn[2]) :
      \E unlink_fails \in IF item.tag = "ok" THEN BOOLEAN ELSE { FALSE } :
        LET out == delete_item(fs, item, unlink_fails)
        IN  /\ fs' = out.fs
            /\ last' = [NoCall EXCEPT !.op = "delete", !.ctype = tn[1], !.name = tn[2],
                                      !.pre = item, !.res = out.res]
            /\ UNCHANGED dirs

\* item.save(base_dir, filename): a direct save into the rules directory.
SaveItem ==
    \E item \in SaveItems :
      \E filename \in SaveFilenames(item) :
        LET out == save(item, <<SaveDir>>, <<filename>>, fs, dirs)
        IN  /\ Cardinality(DOMAIN out.fs) <= MaxFiles
            /\ fs' = out.fs
            /\ dirs' = out.dirs
            /\ last' = [NoCall EXCEPT !.op = "save", !.ctype = item.content_type,
                                      !.name = item.name, !.item = item,
                                      !.base_dir = <<SaveDir>>,
                                      !.filename = <<filename>>, !.res = out.res]

\* The content store: the manager's operations and direct saves.
Next == AddItem \/ GetItem \/ ListItems \/ DeleteItem \/ SaveItem
Spec == Init /\ [][Next]_vars

\* The content store driven through the manager alone.
NextManager == AddItem \/ GetItem \/ ListItems \/ DeleteItem
SpecManager == Init /\ [][NextManager]_vars

(***************************************************************************)
(* Construction of items.                                                  *)
(***************************************************************************)
\* Rule(name, content, content_type, metadata=...)
ConstructRule ==
    \E n \in NameValues, c \in ContentValues, t \in ContentType, m \in MetadataValues :
        /\ last' = [NoCall EXCEPT !.op = "construct", !.ctype = t, !.name = n,
                                  !.item = Item("Rule", n, c, t, m, NoTool, <<>>),
                                  !.res = Rule(n, c, t, m)]
        /\ UNCHANGED <<fs, dirs>>

\* Workflow(name, content, metadata=...)
ConstructWorkflow ==
    \E n \in NameValues, c \in ContentValues, m \in MetadataValues :
        /\ last' = [NoCall EXCEPT !.op = "construct", !.ctype = WORKFLOW, !.name = n,
                                  !.item = Item("Workflow", n, c, WORKFLOW, m, NoTool, <<>>),
                                  !.res = Workflow(n, c, m)]
        /\ UNCHANGED <<fs, dirs>>

\* Profile(name, tool, content, metadata=...)
ConstructProfile ==
    \E n \in NameValues, tl \in ToolValues, c \in ContentValues, m \in MetadataValues :
        /\ last' = [NoCall EXCEPT !.op = "construct", !.ctype = PROFILE, !.name = n,
                                  !.item = Item("Profile", n, c, PROFILE, m, tl, <<>>),
                                  !.res = Profile(n, tl, c, m)]
        /\ UNCHANGED <<fs, dirs>>

\* Constructor calls on every combination of the input values.
NextConstruct == ConstructRule \/ ConstructWorkflow \/ ConstructProfile
SpecConstruct == Init /\ [][NextConstruct]_vars

(***************************************************************************)
(* Loading files that were not written by save(): hand-written documents,  *)
(* with or without a content_type key, in a content directory or elsewhere.*)
(***************************************************************************)
\* A directory whose name is no content type.
OtherDir == DirPath(BaseDir \o <<"elsewhere">>)

LoadDirs == { content_dirs(t) : t \in ContentType } \cup { OtherDir }

\* The documents: with a valid, an unknown or no content_type; with a
\* payload that has or lacks `steps`; and one without a name.
LoadDocs ==
    { Doc(k, <<"a", "b">>, c, t, {}) :
        k \in { {"name", "content", "metadata"}, {"name", "content"} },
        c \in { Dict({"description"}, {}, "v1"), Dict({"steps"}, {}, "v1") },
        t \in { "" } }
    \cup { Doc({"name", "content", "content_type", "metadata"}, <<"a", "b">>, c, t, {}) :
        c \in { Dict({"description"}, {}, "v1"), Dict({"steps"}, {}, "v1") },
        t \in ContentType \cup { "bogus" } }
    \cup { Doc({"content", "content_type"}, <<>>, Dict({"description"}, {}, "v1"), RULE, {}) }

\* The files: each document in the format of its extension, and texts that
\* do not parse.
\* The texts a file of an extension holds.
LoadTexts(e) ==
    { IF e = ".json" THEN json_dump(doc) ELSE yaml_dump(doc) : doc \in LoadDocs }
    \cup { EmptyText, GarbageText }

LoadFiles ==
    UNION { { [path |-> Join(d, Path(<<>>, <<"a", "b">>, e)), text |-> x] :
                d \in LoadDirs, x \in LoadTexts(e) } : e \in {".yaml", ".json"} }

\* A path no file is at.
MissingPath == Join(OtherDir, Path(<<>>, <<"a", "_", "b">>, ".yaml"))

InitLoad ==
    /\ \E file \in LoadFiles :
        /\ fs = [q \in { file.path } |-> file.text]
        /\ dirs = InitDirs \cup Ancestors(parent(file.path))
    /\ last = NoCall

\* ContentItem.load(filepath)
Load ==
    \E filepath \in DOMAIN fs \cup { MissingPath } :
        /\ last' = [NoCall EXCEPT !.op = "load", !.filename = <<filepath>>,
                                  !.res = load(fs, filepath)]
        /\ UNCHANGED <<fs, dirs>>

NextLoad == Load
SpecLoad == InitLoad /\ [][NextLoad]_vars

(***************************************************************************)
(* Saving items the caller holds.  After a call that yielded an item (a    *)
(* save, an add_item, a load) the caller holds that item, with the path    *)
(* the call stored in it, and can pass it to the next call.                *)
(***************************************************************************)
\* The item the caller holds after the last call.
Held == IF last.res.tag = "ok" THEN { last.res.item } ELSE {}

\* Freshly constructed items (path None): a rule whose default extension is
\* .yaml and one whose default extension is .json.
FreshItems ==
    { i \in ValidItems :
        /\ i.cls = "Rule" /\ i.name = <<"a", "b">> /\ i.metadata = {}
        /\ i.content_type \in { RULE, GLOBAL_RULE }
        /\ i.content = Dict({"description"}, {}, "v1") }

\* File paths passed to save() as its single argument: absolute paths with
\* each supported extension, in a directory that exists or not, and a path
\* relative to the working directory.
NewDir == DirPath(BaseDir \o <<"n1", "n2">>)
FilePaths ==
    { Join(OtherDir, Path(<<>>, <<"o", "u", "t">>, e)) : e \in {".yaml", ".yml", ".json"} }
    \cup { Join(NewDir, Path(<<>>, <<"o", "u", "t">>, ".yaml")),
           Path(<<"rel">>, <<"o", "u", "t">>, ".json") }

\* File names with an extension save() does not support.
UnsupportedFilenames ==
    { Path(<<>>, <<"o", "u", "t">>, ".txt"), Path(<<"n3">>, <<"o", "u", "t">>, ".md") }

\* item.save(file_path): save() called with a file path as its only argument.
SaveToPath ==
    \E item \in FreshItems \cup Held, file_path \in FilePaths :
        LET out == save(item, <<file_path>>, <<>>, fs, dirs)
        IN  /\ Cardinality(DOMAIN out.fs) <= MaxFiles
            /\ fs' = out.fs
            /\ dirs' = out.dirs
            /\ last' = [NoCall EXCEPT !.op = "save", !.ctype = item.content_type,
                                      !.name = item.name, !.item = item,
                                      !.base_dir = <<file_path>>, !.res = out.res]

\* item.save(base_dir, filename) with a file name of an unsupported extension.
SaveUnsupported ==
    \E item \in FreshItems \cup Held, base_dir \in { OtherDir, NewDir },
       filename \in UnsupportedFilenames :
        LET out == save(item, <<base_dir>>, <<filename>>, fs, dirs)
        IN  /\ Cardinality(DOMAIN out.fs) <= MaxFiles
            /\ fs' = out.fs
            /\ dirs' = out.dirs
            /\ last' = [NoCall EXCEPT !.op = "save", !.ctype = item.content_type,
                                      !.name = item.name, !.item = item,
                                      !.base_dir = <<base_dir>>,
                                      !.filename = <<filename>>, !.res = out.res]

\* manager.add_item(item, overwrite) with a fresh item or the item held.
AddHeld ==
    \E item \in FreshItems \cup Held, overwrite \in BOOLEAN :
      \E existing \in get_item(fs, item.content_type, item.name) :
        LET out == add_item(fs, dirs, item, overwrite, existing)
        IN  /\ Cardinality(DOMAIN out.fs) <= MaxFiles
            /\ fs' = out.fs
            /\ dirs' = out.dirs
            /\ last' = [NoCall EXCEPT !.op = "add", !.ctype = item.content_type,
                                      !.name = item.name, !.item = item,
                                      !.overwrite = overwrite, !.pre = existing,
                                      !.res = out.res]

\* Saves and adds of held items, and loads of the files they leave.
NextSave == SaveToPath \/ SaveUnsupported \/ AddHeld \/ Load
SpecSave == Init /\ [][NextSave]_vars

(***************************************************************************)
(* Items changed by direct field assignment.  The fields of an item are    *)
(* plain attributes: an assignment replaces the value and validates        *)
(* nothing.                                                                *)
(***************************************************************************)
\* The values assigned: another name or the empty name, another mapping or
\* a list.
AssignedNames == { <<"c", "d">>, <<>> }
AssignedContents == { Dict({"description"}, {}, "v2"), NotADict }

\* item.name = n
AssignName ==
    \E item \in FreshItems \cup Held, n \in AssignedNames :
        /\ last' = [NoCall EXCEPT !.op = "assign",
                                  !.res = Ok([item EXCEPT !.name = n])]
        /\ UNCHANGED <<fs, dirs>>

\* item.content = c
AssignContent ==
    \E item \in FreshItems \cup Held, c \in AssignedContents :
        /\ last' = [NoCall EXCEPT !.op = "assign",
                                  !.res = Ok([item EXCEPT !.content = c])]
        /\ UNCHANGED <<fs, dirs>>

\* manager.get_item(content_type, name) of a rule the store may hold.
GetHeld ==
    \E t \in { RULE, GLOBAL_RULE }, n \in { <<"a", "b">>, <<"c", "d">> } :
      \E r \in get_item(fs, t, n) :
        /\ last' = [NoCall EXCEPT !.op = "get", !.ctype = t, !.name = n, !.res = r]
        /\ UNCHANGED <<fs, dirs>>

\* Items are constructed or fetched, changed by assignment, and added.
NextDetached == AddHeld \/ GetHeld \/ AssignName \/ AssignContent
SpecDetached == Init /\ [][NextDetached]_vars

(***************************************************************************)
(* ContentManager.sync_to_tool(tool_name, tool_adapter, progress_callback). *)
(* To the orchestrator an adapter is the set its                           *)
(* get_supported_content_types() returns, or the exception it raises, and  *)
(* what each sync_item call does: return true, return false, or raise.     *)
(***************************************************************************)
\* The items collected for the supported types (lines 441-444): the types
\* are visited in the iteration order of a set, the items of each type in
\* the order list_items returns them.
RECURSIVE collect(_, _, _)
collect(f, types, acc) ==
    IF types = <<>> THEN { ListOk(acc) }
    ELSE UNION { IF r.tag = "raise" THEN { r }
                 ELSE collect(f, Tail(types), acc \o r.items) :
                    r \in list_items(f, Head(types)) }

items_to_sync(f, supported) ==
    UNION { collect(f, order, <<>>) : order \in Enumerations(supported) }

\* The percentage reported before item i of total, counted down instead of up.
percent_Remaining(i, total) == ((total - i) * 100) \div total

\* int((i / total_items) * 100): for fewer than 50 items the truncated
\* floating-point product equals the integer quotient.
percent(i, total) == (i * 100) \div total

\* progress_callback(pct, ...) if a callback was passed.
report(progress, callback, pct) == IF callback THEN Append(progress, pct) ELSE progress

SyncResult(res, calls, progress, raised) ==
    [res |-> res, calls |-> calls, progress |-> progress, raised |-> raised]

\* The except branch (lines 466-470).
sync_failed(calls, progress, callback) ==
    SyncResult(False, calls, report(progress, callback, 0), TRUE)

\* The loop over the items, but with the overall result made of the values
\* sync_item returned.
RECURSIVE sync_loop_Aggregating(_, _, _, _, _, _)
sync_loop_Aggregating(items, outcomes, i, calls, progress, callback) ==
    IF i > Len(items)
    THEN SyncResult(IF \A k \in DOMAIN outcomes : outcomes[k] = "true" THEN True ELSE False,
                    calls, report(progress, callback, 100), FALSE)
    ELSE LET reported == report(progress, callback, percent(i, Len(items)))
             called == Append(calls, items[i])
         IN  IF outcomes[i] = "raise" THEN sync_failed(called, reported, callback)
             ELSE sync_loop_Aggregating(items, outcomes, i + 1, called, reported, callback)

\* The loop over the items (lines 452-464): report the percentage, call
\* sync_item and ignore the value it returns; an exception ends the loop.
RECURSIVE sync_loop(_, _, _, _, _, _)
sync_loop(items, outcomes, i, calls, progress, callback) ==
    IF i > Len(items)
    THEN SyncResult(True, calls, report(progress, callback, 100), FALSE)
    ELSE LET reported == report(progress, callback, percent(i, Len(items)))
             called == Append(calls, items[i])
         IN  IF outcomes[i] = "raise" THEN sync_failed(called, reported, callback)
             ELSE sync_loop(items, outcomes, i + 1, called, reported, callback)

\* sync_to_tool, given whether get_supported_content_types raises, the
\* outcome `collected` of collecting the items, and what the sync_item call
\* for each item does.
sync_to_tool(supported_raises, collected, outcomes, callback) ==
    LET started == report(<<>>, callback, 0)
    IN  IF supported_raises THEN sync_failed(<<>>, started, callback)
        ELSE IF collected.tag = "raise" THEN sync_failed(<<>>, started, callback)
        ELSE IF collected.items = <<>>
        THEN SyncResult(True, <<>>, report(started, callback, 100), FALSE)
        ELSE sync_loop(collected.items, outcomes, 1, <<>>, started, callback)

\* The adapters sync_to_tool is called with: the base class ToolAdapter
\* (supports nothing, sync_item raises NotImplementedError), and subclasses
\* with a set of supported types whose calls return true or false or raise,
\* one of them failing in get_supported_content_types.
Adapter(cls, supported, supported_raises, outcomes) ==
    [cls |-> cls, supported |-> supported, supported_raises |-> supported_raises,
     outcomes |-> outcomes]

SyncAdapters ==
    { Adapter("ToolAdapter", {}, FALSE, { "raise" }),
      Adapter("Subclass", { RULE }, FALSE, { "true", "false", "raise" }),
      Adapter("Subclass", { RULE, WORKFLOW }, FALSE, { "true", "false", "raise" }),
      Adapter("Subclass", {}, TRUE, { "true" }) }

\* manager.sync_to_tool(tool_name, adapter, progress_callback)
SyncToTool ==
    \E adapter \in SyncAdapters, callback \in BOOLEAN :
      \E collected \in items_to_sync(fs, adapter.supported) :
      \E outcomes \in [1..Len(collected.items) -> adapter.outcomes] :
        LET out == sync_to_tool(adapter.supported_raises, collected, outcomes, callback)
        IN  /\ last' = [NoCall EXCEPT !.op = "sync", !.adapter = adapter,
                                      !.callback = callback,
                                      !.items = collected.items,
                                      !.outcomes = outcomes,
                                      !.res = out.res, !.calls = out.calls,
                                      !.progress = out.progress,
                                      !.raised = out.raised]
            /\ UNCHANGED <<fs, dirs>>

\* The store driven through the manager, and synced.
NextSync == AddItem \/ DeleteItem \/ SyncToTool
SpecSync == Init /\ [][NextSync]_vars

(***************************************************************************)
(* sync_to_tool with a progress callback that may raise.  The callback is  *)
(* the set of its invocations (first, second, ...) at which it raises; the *)
(* percentages recorded are those of all invocations, raising or not.      *)
(***************************************************************************)
\* progress_callback(pct, message): the invocation is recorded, and raises
\* if its number is one the callback raises at.
progress_callback(progress, raises_at, pct) ==
    [progress |-> Append(progress, pct), raised |-> (Len(progress) + 1) \in raises_at]

\* The except branch (lines 466-470): the callback is invoked once more,
\* outside any try block, before False is returned.
except_branch(calls, progress, raises_at) ==
    LET told == progress_callback(progress, raises_at, 0)
    IN  SyncResult(IF told.raised THEN Raise("CallbackError") ELSE False,
                   calls, told.progress, TRUE)

\* The loop over the items and the final report (lines 452-464).
RECURSIVE sync_loop_callback(_, _, _, _, _, _)
sync_loop_callback(items, outcomes, i, calls, progress, raises_at) ==
    IF i > Len(items)
    THEN LET told == progress_callback(progress, raises_at, 100)
         IN  IF told.raised THEN except_branch(calls, told.progress, raises_at)
             ELSE SyncResult(True, calls, told.progress, FALSE)
    ELSE LET told == progress_callback(progress, raises_at, percent(i, Len(items)))
             called == Append(calls, items[i])
         IN  IF told.raised THEN except_branch(calls, told.progress, raises_at)
             ELSE IF outcomes[i] = "raise" THEN except_branch(called, told.progress, raises_at)
             ELSE sync_loop_callback(items, outcomes, i + 1, called, told.progress, raises_at)

\* sync_to_tool with a callback passed (lines 433-470).
sync_to_tool_callback(supported_raises, collected, outcomes, raises_at) ==
    LET started == progress_callback(<<>>, raises_at, 0)
    IN  IF started.raised THEN except_branch(<<>>, started.progress, raises_at)
        ELSE IF supported_raises \/ collected.tag = "raise"
        THEN except_branch(<<>>, started.progress, raises_at)
        ELSE IF collected.items = <<>>
        THEN LET told == progress_callback(started.progress, raises_at, 100)
             IN  IF told.raised THEN except_branch(<<>>, told.progress, raises_at)
                 ELSE SyncResult(True, <<>>, told.progress, FALSE)
        ELSE sync_loop_callback(collected.items, outcomes, 1, <<>>, started.progress, raises_at)

\* The callbacks passed: one that never raises, one that raises at one of
\* its invocations only, and one that raises from some invocation on.  A
\* sync of n items invokes the callback at most n + 3 times.
RaisePatterns(n) ==
    { {} } \cup { { k } : k \in 1..(n + 2) } \cup { k..(n + 3) : k \in 1..(n + 3) }

\* manager.sync_to_tool(tool_name, adapter, progress_callback)
SyncWithCallback ==
    \E adapter \in SyncAdapters :
      \E collected \in items_to_sync(fs, adapter.supported) :
      \E outcomes \in [1..Len(collected.items) -> adapter.outcomes],
         raises_at \in RaisePatterns(Len(collected.items)) :
        LET out == sync_to_tool_callback(adapter.supported_raises, collected,
                                         outcomes, raises_at)
        IN  /\ last' = [NoCall EXCEPT !.op = "sync", !.adapter = adapter,
                                      !.callback = TRUE,
                                      !.items = collected.items,
                                      !.outcomes = outcomes,
                                      !.raises_at = raises_at,
                                      !.res = out.res, !.calls = out.calls,
                                      !.progress = out.progress,
                                      !.raised = out.raised]
            /\ UNCHANGED <<fs, dirs>>

\* The store driven through the manager, and synced with such a callback.
NextCallback == AddItem \/ DeleteItem \/ SyncWithCallback
SpecCallback == Init /\ [][NextCallback]_vars

(***************************************************************************)
(* The concrete adapters (src/ai_cli/tools): QCLIAdapter, WindsurfAdapter  *)
(* and GeminiAdapter.  Each writes below its own configuration directory.  *)
(***************************************************************************)
AdapterClasses == { "QCLIAdapter", "WindsurfAdapter", "GeminiAdapter" }

\* The tool name each adapter passes to ToolAdapter.__init__.
tool_name(cls) ==
    CASE cls = "QCLIAdapter" -> "q-cli"
      [] cls = "WindsurfAdapter" -> "windsurf"
      [] cls = "GeminiAdapter" -> "gemini"

\* The configuration directory of each adapter.
config_dir(cls) ==
    CASE cls = "QCLIAdapter" -> <<"/", "home", ".q">>
      [] cls = "WindsurfAdapter" -> <<"/", "home", ".windsurf">>
      [] cls = "GeminiAdapter" -> <<"/", "home", ".gemini">>

get_supported_content_types(cls) ==
    CASE cls = "QCLIAdapter" -> { PROFILE, RULE, WORKFLOW, AMAZONQ_PROFILE }
      [] cls = "WindsurfAdapter" -> { RULE, WORKFLOW, WINDSURF_WORKFLOW }
      [] cls = "GeminiAdapter" -> { PROFILE, RULE, WORKFLOW }

\* Gemini's main configuration file and what _init_config writes to it: the
\* value of each setting and the registered prompt templates.
config_file == Path(config_dir("GeminiAdapter"), <<"config">>, ".json")
ConfigKeys == { "api_key", "model", "temperature", "max_tokens" }
default_config ==
    [fmt |-> "json",
     data |-> [values |-> [k \in ConfigKeys |-> "default"], prompt_templates |-> {}]]

\* The directories and files the constructor of an adapter leaves.
AdapterDirs(cls) ==
    LET c == config_dir(cls)
        sub == CASE cls = "QCLIAdapter" -> { "profiles", "rules", "workflows" }
                 [] cls = "WindsurfAdapter" -> { "personas", "workflows" }
                 [] cls = "GeminiAdapter" -> { "prompts" }
    IN  Ancestors(c) \cup { c \o <<x>> : x \in sub }

AdapterFiles(cls) ==
    IF cls = "GeminiAdapter" THEN [q \in { config_file } |-> default_config] ELSE EmptyFS

\* content.get(key, default): the tag of the value, or the default.
content_get(content, key, default) == IF key \in content.skeys THEN content.val ELSE default

\* The outcome of a step of sync_item: its result and the files left.
Outcome(res, f) == [res |-> res, fs |-> f]

\* The file opened for appending: a file that exists already ends up holding
\* two documents one after the other.
write_file_Append(f, path, text, io) ==
    LET put(t) == [q \in DOMAIN f \cup { path } |-> IF q = path THEN t ELSE f[q]]
    IN  CASE io = "open" -> Outcome(Raise("OSError"), f)
          [] io = "write" -> Outcome(Raise("TypeError"), put(EmptyText))
          [] OTHER -> Outcome(True, put(IF path \in DOMAIN f THEN GarbageText ELSE text))

\* with open(path, 'w') as f: dump(data, f).  The I/O failure the call meets
\* is none ("ok"), open() raising ("open": nothing is changed), or the dump
\* raising after the file was opened ("write": the file is left without a
\* complete document).
write_file(f, path, text, io) ==
    LET put(t) == [q \in DOMAIN f \cup { path } |-> IF q = path THEN t ELSE f[q]]
    IN  CASE io = "open" -> Outcome(Raise("OSError"), f)
          [] io = "write" -> Outcome(Raise("TypeError"), put(EmptyText))
          [] OTHER -> Outcome(True, put(text))

\* A try block without its except clause: the exception leaves the method.
catch_Propagate(out) == out

\* try: ... except Exception: log the error and return False.
catch(out) == IF out.res.tag = "raise" THEN Outcome(False, out.fs) ELSE out

(* QCLIAdapter *)
QCLI_sync_profile(f, profile, io) ==
    catch(write_file(f, Path(config_dir("QCLIAdapter") \o <<"profiles">>, profile.name, ".yaml"),
                     [fmt |-> "yaml",
                      data |-> [name |-> profile.name, config |-> profile.content]], io))

QCLI_sync_rule(f, rule, io) ==
    catch(write_file(f, Path(config_dir("QCLIAdapter") \o <<"rules">>, rule.name, ".yaml"),
                     [fmt |-> "yaml", data |-> rule.content], io))

QCLI_sync_workflow(f, workflow, io) ==
    catch(write_file(f, Path(config_dir("QCLIAdapter") \o <<"workflows">>, workflow.name, ".yaml"),
                     [fmt |-> "yaml", data |-> workflow.content], io))

QCLI_sync_item(f, item, io) ==
    catch(IF item.content_type \in { PROFILE, AMAZONQ_PROFILE } THEN QCLI_sync_profile(f, item, io)
          ELSE IF item.content_type = RULE THEN QCLI_sync_rule(f, item, io)
          ELSE IF item.content_type = WORKFLOW THEN QCLI_sync_workflow(f, item, io)
          ELSE Outcome(False, f))

(* WindsurfAdapter *)
Windsurf_sync_persona(f, rule, io) ==
    catch(write_file(f, Path(config_dir("WindsurfAdapter") \o <<"personas">>, rule.name, ".json"),
                     [fmt |-> "json",
                      data |-> [name |-> rule.name,
                                description |-> content_get(rule.content, "description", ""),
                                config |-> json_content(rule.content)]], io))

Windsurf_sync_workflow(f, workflow, io) ==
    catch(write_file(f, Path(config_dir("WindsurfAdapter") \o <<"workflows">>, workflow.name, ".json"),
                     [fmt |-> "json",
                      data |-> [name |-> workflow.name,
                                description |-> content_get(workflow.content, "description", ""),
                                steps |-> content_get(workflow.content, "steps", "[]")]], io))

Windsurf_sync_item(f, item, io) ==
    catch(IF item.content_type \in { RULE, GLOBAL_RULE, PROJECT_RULE }
          THEN Windsurf_sync_persona(f, item, io)
          ELSE IF item.content_type \in { WORKFLOW, WINDSURF_WORKFLOW }
          THEN Windsurf_sync_workflow(f, item, io)
          ELSE Outcome(False, f))

(* GeminiAdapter *)
\* json.load of the configuration file: the configuration, or the exception.
read_config(f) ==
    IF config_file \notin DOMAIN f THEN Raise("FileNotFoundError")
    ELSE IF f[config_file].fmt # "json" THEN Raise("JSONDecodeError")
    ELSE True

\* _sync_config: every key of the profile's content that is a setting of the
\* configuration replaces that setting; the file is then written again.
Gemini_sync_config(f, profile, io) ==
    catch(IF read_config(f).tag = "raise" THEN Outcome(read_config(f), f)
          ELSE LET config == f[config_file].data
                   updated == [config EXCEPT !.values =
                                  [k \in ConfigKeys |-> IF k \in profile.content.skeys
                                                        THEN profile.content.val
                                                        ELSE config.values[k]]]
               IN  write_file(f, config_file, [fmt |-> "json", data |-> updated], io))

\* _sync_prompt_template: the template is written to prompts/<name>.txt (the
\* I/O failure, if any, is met there), then registered in the configuration
\* file opened with 'r+'.
Gemini_sync_prompt_template(f, rule, io) ==
    LET prompt_path == Path(config_dir("GeminiAdapter") \o <<"prompts">>, rule.name, ".txt")
        written == write_file(f, prompt_path,
                              [fmt |-> "text",
                               data |-> content_get(rule.content, "template", "")], io)
        f1 == written.fs
    IN  catch(IF written.res.tag = "raise" THEN written
              ELSE IF read_config(f1).tag = "raise" THEN Outcome(read_config(f1), f1)
              ELSE Outcome(True,
                     [f1 EXCEPT ![config_file].data.prompt_templates = @ \cup { rule.name }]))

Gemini_sync_workflow(f, workflow, io) ==
    catch(write_file(f, Path(config_dir("GeminiAdapter"), <<"workflow_">> \o workflow.name, ".json"),
                     [fmt |-> "json",
                      data |-> [name |-> workflow.name,
                                description |-> content_get(workflow.content, "description", ""),
                                steps |-> content_get(workflow.content, "steps", "[]"),
                                parameters |-> content_get(workflow.content, "parameters", "{}")]],
                     io))

Gemini_sync_item(f, item, io) ==
    catch(IF item.content_type = PROFILE THEN Gemini_sync_config(f, item, io)
          ELSE IF item.content_type = RULE THEN Gemini_sync_prompt_template(f, item, io)
          ELSE IF item.content_type = WORKFLOW THEN Gemini_sync_workflow(f, item, io)
          ELSE Outcome(False, f))

\* adapter.sync_item(item) of the adapter of a class.
sync_item(cls, f, item, io) ==
    CASE cls = "QCLIAdapter" -> QCLI_sync_item(f, item, io)
      [] cls = "WindsurfAdapter" -> Windsurf_sync_item(f, item, io)
      [] cls = "GeminiAdapter" -> Gemini_sync_item(f, item, io)

(***************************************************************************)
(* Calls of sync_item on a constructed adapter.                            *)
(***************************************************************************)
\* The items sync_item is called with: rules of every content type, with and
\* without a template, a workflow, and profiles of two tools whose content
\* has or lacks a setting of Gemini's configuration.
AdapterItems ==
    { r.item : r \in
        { Rule(<<"a", "b">>, c, t, {}) :
            c \in { Dict({"description"}, {}, "v1"), Dict({"template"}, {1}, "v1") },
            t \in ContentType }
        \cup { Workflow(<<"a", "b">>, Dict({"steps"}, {}, "v1"), {}) }
        \cup { Profile(<<"a", "b">>, tl, c, {}) :
                tl \in { "q-cli", "gemini" },
                c \in { Dict({"model"}, {}, "v1"), Dict({"description"}, {}, "v2") } } }

IOFailures == { "ok", "open", "write" }

\* One adapter is constructed, with its directories and files.
InitAdapter ==
    /\ \E cls \in AdapterClasses :
        /\ fs = AdapterFiles(cls)
        /\ dirs = AdapterDirs(cls)
    /\ last = NoCall

\* The record of a call cls(config_dir).sync_item(item).
SyncItemCall(cls, item, io, res) ==
    [NoCall EXCEPT !.op = "sync_item", !.ctype = item.content_type,
                   !.name = item.name, !.item = item, !.io = io,
                   !.adapter = Adapter(cls, get_supported_content_types(cls),
                                       FALSE, { "true", "false" }),
                   !.res = res]

\* QCLIAdapter(config_dir).sync_item(item), if that adapter was constructed.
QCLISyncItem ==
    \E item \in AdapterItems, io \in IOFailures :
        LET out == sync_item("QCLIAdapter", fs, item, io)
        IN  /\ config_dir("QCLIAdapter") \in dirs
            /\ fs' = out.fs
            /\ last' = SyncItemCall("QCLIAdapter", item, io, out.res)
            /\ UNCHANGED dirs

\* WindsurfAdapter(config_dir).sync_item(item), if that adapter was constructed.
WindsurfSyncItem ==
    \E item \in AdapterItems, io \in IOFailures :
        LET out == sync_item("WindsurfAdapter", fs, item, io)
        IN  /\ config_dir("WindsurfAdapter") \in dirs
            /\ fs' = out.fs
            /\ last' = SyncItemCall("WindsurfAdapter", item, io, out.res)
            /\ UNCHANGED dirs

\* GeminiAdapter(config_dir).sync_item(item), if that adapter was constructed.
GeminiSyncItem ==
    \E item \in AdapterItems, io \in IOFailures :
        LET out == sync_item("GeminiAdapter", fs, item, io)
        IN  /\ config_dir("GeminiAdapter") \in dirs
            /\ fs' = out.fs
            /\ last' = SyncItemCall("GeminiAdapter", item, io, out.res)
            /\ UNCHANGED dirs

NextAdapter == QCLISyncItem \/ WindsurfSyncItem \/ GeminiSyncItem
SpecAdapter == InitAdapter /\ [][NextAdapter]_vars

(***************************************************************************)
(* Construction of an adapter on a configuration root that exists already. *)
(***************************************************************************)
\* The constructor writing Gemini's default configuration unconditionally.
adapter_init_Reset(cls, f) ==
    IF cls = "GeminiAdapter"
    THEN [q \in DOMAIN f \cup { config_file } |->
            IF q = config_file THEN default_config ELSE f[q]]
    ELSE f

\* The files an adapter's __init__ leaves: mkdir(exist_ok=True) touches no
\* file, and GeminiAdapter calls _init_config only if config.json is missing.
adapter_init(cls, f) ==
    IF cls = "GeminiAdapter" /\ config_file \notin DOMAIN f
    THEN [q \in DOMAIN f \cup { config_file } |->
            IF q = config_file THEN default_config ELSE f[q]]
    ELSE f

\* QCLIAdapter(config_dir) once more, on the root an earlier instance initialised.
ConstructQCLI ==
    /\ config_dir("QCLIAdapter") \in dirs
    /\ fs' = adapter_init("QCLIAdapter", fs)
    /\ dirs' = dirs \cup AdapterDirs("QCLIAdapter")
    /\ last' = [NoCall EXCEPT !.op = "construct",
                              !.adapter = Adapter("QCLIAdapter",
                                            get_supported_content_types("QCLIAdapter"),
                                            FALSE, { "true", "false" })]

\* WindsurfAdapter(config_dir) once more, on the root an earlier instance initialised.
ConstructWindsurf ==
    /\ config_dir("WindsurfAdapter") \in dirs
    /\ fs' = adapter_init("WindsurfAdapter", fs)
    /\ dirs' = dirs \cup AdapterDirs("WindsurfAdapter")
    /\ last' = [NoCall EXCEPT !.op = "construct",
                              !.adapter = Adapter("WindsurfAdapter",
                                            get_supported_content_types("WindsurfAdapter"),
                                            FALSE, { "true", "false" })]

\* GeminiAdapter(config_dir) once more, on the root an earlier instance initialised.
ConstructGemini ==
    /\ config_dir("GeminiAdapter") \in dirs
    /\ fs' = adapter_init("GeminiAdapter", fs)
    /\ dirs' = dirs \cup AdapterDirs("GeminiAdapter")
    /\ last' = [NoCall EXCEPT !.op = "construct",
                              !.adapter = Adapter("GeminiAdapter",
                                            get_supported_content_types("GeminiAdapter"),
                                            FALSE, { "true", "false" })]

\* An adapter that is synced into and constructed again.
NextReconstruct ==
    \/ QCLISyncItem \/ WindsurfSyncItem \/ GeminiSyncItem
    \/ ConstructQCLI \/ ConstructWindsurf \/ ConstructGemini
SpecReconstruct == InitAdapter /\ [][NextReconstruct]_vars

(***************************************************************************)
(* Sync passes of the concrete adapters over the content store: the store  *)
(* and the tool's configuration directory live in the one file system.     *)
(***************************************************************************)
\* The loop of sync_to_tool over the collected items with a concrete
\* adapter: each sync_item call works on the files the calls before it left
\* and, as it never raises, the loop runs to its end.
RECURSIVE sync_pass(_, _, _, _, _, _)
sync_pass(cls, f, items, ios, i, results) ==
    IF i > Len(items) THEN [fs |-> f, results |-> results]
    ELSE LET out == sync_item(cls, f, items[i], ios[i])
         IN  sync_pass(cls, out.fs, items, ios, i + 1, Append(results, out.res.tag))

\* The files of the content store.
StoreFiles(f) == { q \in DOMAIN f : IsPrefix(BaseDir, q.dirs) }

\* The items added to the store between passes: two rules and a workflow.
PassItems ==
    { i \in ValidItems :
        /\ i.metadata = {}
        /\ \/ /\ i.cls = "Rule" /\ i.content_type = RULE
              /\ i.name \in { <<"a", "b">>, <<"a", "_", "b">> }
              /\ i.content = Dict({"description"}, {}, "v1")
           \/ /\ i.cls = "Workflow" /\ i.name = <<"a", "b">> }

\* The manager and one adapter are constructed.
InitPass ==
    /\ \E cls \in AdapterClasses :
        /\ fs = AdapterFiles(cls)
        /\ dirs = InitDirs \cup AdapterDirs(cls)
    /\ last = NoCall

\* manager.add_item(item, overwrite) of one of the items above.
AddToStore ==
    \E item \in PassItems, overwrite \in BOOLEAN :
      \E existing \in get_item(fs, item.content_type, item.name) :
        LET out == add_item(fs, dirs, item, overwrite, existing)
        IN  /\ Cardinality(StoreFiles(out.fs)) <= MaxFiles
            /\ fs' = out.fs
            /\ dirs' = out.dirs
            /\ last' = [NoCall EXCEPT !.op = "add", !.ctype = item.content_type,
                                      !.name = item.name, !.item = item,
                                      !.overwrite = overwrite, !.pre = existing,
                                      !.res = out.res]

\* The record of a sync pass: sync_to_tool returns true at the end of the
\* loop, false if collecting the items raised.
PassCall(cls, collected, ios, results) ==
    [NoCall EXCEPT !.op = "pass",
                   !.adapter = Adapter(cls, get_supported_content_types(cls),
                                       FALSE, { "true", "false" }),
                   !.items = collected.items, !.calls = collected.items,
                   !.ios = ios, !.outcomes = results,
                   !.res = IF collected.tag = "raise" THEN False ELSE True,
                   !.repeat = (last.op = "pass" /\ last.adapter.cls = cls)]

\* manager.sync_to_tool("q-cli", adapter) with the QCLIAdapter constructed.
QCLISyncPass ==
    \E collected \in items_to_sync(fs, get_supported_content_types("QCLIAdapter")) :
      \E ios \in [1..Len(collected.items) -> IOFailures] :
        LET out == sync_pass("QCLIAdapter", fs, collected.items, ios, 1, <<>>)
        IN  /\ config_dir("QCLIAdapter") \in dirs
            /\ fs' = out.fs
            /\ last' = PassCall("QCLIAdapter", collected, ios, out.results)
            /\ UNCHANGED dirs

\* manager.sync_to_tool("windsurf", adapter) with the WindsurfAdapter constructed.
WindsurfSyncPass ==
    \E collected \in items_to_sync(fs, get_supported_content_types("WindsurfAdapter")) :
      \E ios \in [1..Len(collected.items) -> IOFailures] :
        LET out == sync_pass("WindsurfAdapter", fs, collected.items, ios, 1, <<>>)
        IN  /\ config_dir("WindsurfAdapter") \in dirs
            /\ fs' = out.fs
            /\ last' = PassCall("WindsurfAdapter", collected, ios, out.results)
            /\ UNCHANGED dirs

\* manager.sync_to_tool("gemini", adapter) with the GeminiAdapter constructed.
GeminiSyncPass ==
    \E collected \in items_to_sync(fs, get_supported_content_types("GeminiAdapter")) :
      \E ios \in [1..Len(collected.items) -> IOFailures] :
        LET out == sync_pass("GeminiAdapter", fs, collected.items, ios, 1, <<>>)
        IN  /\ config_dir("GeminiAdapter") \in dirs
            /\ fs' = out.fs
            /\ last' = PassCall("GeminiAdapter", collected, ios, out.results)
            /\ UNCHANGED dirs

\* The store changes and is synced again and again.
NextPass == AddToStore \/ DeleteItem \/ QCLISyncPass \/ WindsurfSyncPass \/ GeminiSyncPass
SpecPass == InitPass /\ [][NextPass]_vars

(***************************************************************************)
(* C8: construction validates the item.                                    *)
(***************************************************************************)
\* The invariants of an item of a class: a non-empty name, a mapping as
\* content, `steps` in a Workflow's content, a non-empty tool in a Profile.
SatisfiesInvariants(i) ==
    /\ i.name # <<>>
    /\ i.content.kind = "dict"
    /\ i.cls = "Workflow" => "steps" \in i.content.skeys
    /\ i.cls = "Profile" => i.tool # ""

\* C8: a constructor call fails with ValueError and yields no item exactly
\* when its arguments violate an invariant of the class; otherwise it yields
\* the item made of its arguments.
C8_ConstructionValidates ==
    last.op = "construct" =>
        IF SatisfiesInvariants(last.item)
        THEN last.res = Ok(last.item)
        ELSE last.res = Raise("ValueError")

\* C8 witness: a Workflow whose content is a mapping without `steps` was
\* rejected.
C8_Witness ==
    /\ last.op = "construct"
    /\ last.item.cls = "Workflow"
    /\ last.item.name # <<>>
    /\ last.item.content.kind = "dict"
    /\ "steps" \notin last.item.content.skeys
    /\ last.res = Raise("ValueError")

(***************************************************************************)
(* What the store holds.                                                   *)
(***************************************************************************)
\* The files under a type's directory whose document is an item of that
\* type and name.
FilesOf(f, content_type, name) ==
    { p \in DOMAIN f :
        /\ IsPrefix(content_dirs(content_type).dirs, p.dirs)
        /\ "name" \in f[p].data.keys
        /\ f[p].data.name = name
        /\ f[p].data.content_type = content_type }

\* An item of that type and name is persisted.
Stored(f, content_type, name) == FilesOf(f, content_type, name) # {}

\* How many entries of a sequence of items carry a name.
CountName(items, name) == Cardinality({ k \in DOMAIN items : items[k].name = name })

(***************************************************************************)
(* C1: the round-trip law of add_item and get_item.                        *)
(***************************************************************************)
\* C1: when add_item has stored an item that get_item did not find before,
\* get_item of its type and name returns an item with the same name, content
\* type and content.
C1_AddThenGetRoundTrip ==
    (last.op = "add" /\ last.res.tag = "ok" /\ last.pre = None) =>
        \A r \in get_item(fs, last.ctype, last.name) :
            /\ r.tag = "ok"
            /\ r.item.name = last.item.name
            /\ r.item.content_type = last.item.content_type
            /\ r.item.content = last.item.content

(***************************************************************************)
(* C2: add_item without overwrite on an existing item.                     *)
(***************************************************************************)
\* C2: a step add_item(item, overwrite=False), taken when an item of that
\* type and name is persisted, raises FileExistsError and leaves the files
\* as they were, and get_item still returns the persisted item.
C2_AddExistingFails ==
    [][ (last'.op = "add" /\ ~last'.overwrite /\ Stored(fs, last'.ctype, last'.name)) =>
            /\ last'.res = Raise("FileExistsError")
            /\ fs' = fs
            /\ \A r \in get_item(fs', last'.ctype, last'.name) :
                  /\ r.tag = "ok"
                  /\ Resolve(r.item.path[1]) \in FilesOf(fs, last'.ctype, last'.name)
                  /\ r.item.content = fs[Resolve(r.item.path[1])].data.content ]_vars

(***************************************************************************)
(* C3: add_item with overwrite on an existing item.                        *)
(***************************************************************************)
\* C3: a step add_item(item, overwrite=True), taken when an item of that
\* type and name is persisted, succeeds; afterwards exactly one file holds
\* that type and name, at the path the item was persisted at before, and
\* get_item returns the new content.
C3_OverwriteReplacesInPlace ==
    [][ (last'.op = "add" /\ last'.overwrite /\ Stored(fs, last'.ctype, last'.name)) =>
            /\ last'.res.tag = "ok"
            /\ Cardinality(FilesOf(fs', last'.ctype, last'.name)) = 1
            /\ FilesOf(fs', last'.ctype, last'.name) = FilesOf(fs, last'.ctype, last'.name)
            /\ \A r \in get_item(fs', last'.ctype, last'.name) :
                  r.tag = "ok" /\ r.item.content = last'.item.content ]_vars

(***************************************************************************)
(* C4: delete_item and the get_item that follows it.                       *)
(***************************************************************************)
\* The files get_item(content_type, name) can resolve to.
Candidates(f, content_type, name) ==
    UNION { glob_recursive(f, content_dirs(content_type), name, e) :
                e \in {".yaml", ".yml", ".json"} }

\* C4 as claimed: whenever delete_item returned true, get_item of that type
\* and name returns None.
C4_DeleteThenGetNone ==
    (last.op = "delete" /\ last.res = True) =>
        \A r \in get_item(fs, last.ctype, last.name) : r = None

\* C4 as amended: whenever delete_item returned true, the file get_item had
\* resolved is unlinked and get_item does not resolve to it again; get_item
\* returns None exactly when no other file of that name, under another
\* extension or in a sub-directory, is left in the type's directory.
C4_DeleteUnlinksResolvedFile ==
    (last.op = "delete" /\ last.res = True) =>
        /\ last.pre.tag = "ok"
        /\ Resolve(last.pre.item.path[1]) \notin DOMAIN fs
        /\ \A r \in get_item(fs, last.ctype, last.name) :
              /\ r.tag = "ok" => r.item.path # last.pre.item.path
              /\ r = None <=> Candidates(fs, last.ctype, last.name) = {}

\* C4 witness: delete_item returned true while another file of that name is
\* left, and get_item resolves to it.
C4_Witness ==
    /\ last.op = "delete" /\ last.res = True
    /\ Candidates(fs, last.ctype, last.name) # {}
    /\ \E r \in get_item(fs, last.ctype, last.name) : r.tag = "ok"

(***************************************************************************)
(* C5: delete_item of a name that is not there, and delete_item's failures.*)
(***************************************************************************)
\* C5: delete_item never raises; when get_item finds no item of that name
\* it returns false and leaves every file as it was.
C5_DeleteNeverRaises ==
    [][ last'.op = "delete" =>
            /\ last'.res \in { True, False }
            /\ last'.pre = None => (last'.res = False /\ fs' = fs) ]_vars

(***************************************************************************)
(* C6: list_items lists what the store holds.                              *)
(***************************************************************************)
\* C6: list_items(type) does not raise and returns one entry for each
\* persisted item of the type, and nothing else: every entry is of the type,
\* and a name has one entry if an item of that name is persisted and none
\* otherwise.
C6_ListExactlyStored ==
    last.op = "list" =>
        /\ last.res.tag # "raise"
        /\ \A k \in DOMAIN last.items : last.items[k].content_type = last.ctype
        /\ \A n \in LookupNames :
              CountName(last.items, n) = IF Stored(fs, last.ctype, n) THEN 1 ELSE 0

(***************************************************************************)
(* C7: list_items skips the files that fail to load.                       *)
(***************************************************************************)
\* The files list_items' globs yield: the direct children of the type's
\* directory with a supported extension.
Listed(f, content_type) ==
    UNION { glob_direct(f, content_dirs(content_type), e) : e \in {".yaml", ".yml", ".json"} }

Loadable(f, content_type) == { p \in Listed(f, content_type) : load(f, p).tag = "ok" }

\* C7: list_items does not raise, and returns the item of every loadable
\* file of the directory, once each, and nothing else.
C7_ListSkipsUnloadable ==
    last.op = "list" =>
        /\ last.res.tag # "raise"
        /\ Len(last.items) = Cardinality(Loadable(fs, last.ctype))
        /\ \A p \in Loadable(fs, last.ctype) :
              \E k \in DOMAIN last.items : last.items[k] = load(fs, p).item
        /\ \A k \in DOMAIN last.items :
              \E p \in Loadable(fs, last.ctype) : last.items[k] = load(fs, p).item

\* C7 witness: list_items returned an item from a directory that also holds
\* a file that fails to load.
C7_Witness ==
    /\ last.op = "list"
    /\ Len(last.items) >= 1
    /\ Listed(fs, last.ctype) \ Loadable(fs, last.ctype) # {}

(***************************************************************************)
(* C9: saving and loading is lossless.                                     *)
(***************************************************************************)
\* The document of an item: name, content_type, content and metadata, and
\* for a Profile also tool.
Document(i) == [doc |-> to_dict(i), tool |-> i.tool]

\* C9: after an item was saved, loading the file it was saved to yields an
\* item with the same document.
C9_SaveLoadLossless ==
    (last.op \in {"add", "save"} /\ last.res.tag = "ok") =>
        LET r == load(fs, last.res.item.path[1])
        IN  r.tag = "ok" /\ Document(r.item) = Document(last.item)

(***************************************************************************)
(* C10: load resolves the content type and dispatches on its family.       *)
(***************************************************************************)
\* The content type load is to resolve for a document at a path.
ResolvedType(filepath, data) ==
    IF "content_type" \in data.keys THEN data.content_type
    ELSE IF parent_name(filepath) \in ContentType THEN parent_name(filepath)
    ELSE RULE

\* The class of a family.
FamilyClass(content_type) ==
    CASE content_type \in RuleFamily -> "Rule"
      [] content_type \in WorkflowFamily -> "Workflow"
      [] content_type \in ProfileFamily -> "Profile"

\* A document load can build an item of the resolved type from: it parsed,
\* has a name and a payload (with `steps` for the Workflow family), and its
\* content type, when given, is one of the seven.
WellFormed(f, filepath) ==
    LET text == f[Resolve(filepath)]
        t == ResolvedType(filepath, text.data)
    IN  /\ text.fmt \in {"yaml", "json"}
        /\ {"name", "content"} \subseteq text.data.keys
        /\ text.data.name # <<>>
        /\ text.data.content.kind = "dict"
        /\ t \in ContentType
        /\ t \in WorkflowFamily => "steps" \in text.data.content.skeys

\* C10: load of a well-formed document returns an item of the class of the
\* resolved type's family, with the resolved type as its content type.
C10_LoadDispatchesOnFamily ==
    (last.op = "load" /\ last.filename[1] \in DOMAIN fs /\ WellFormed(fs, last.filename[1])) =>
        LET t == ResolvedType(last.filename[1], fs[last.filename[1]].data)
        IN  /\ last.res.tag = "ok"
            /\ last.res.item.content_type = t
            /\ last.res.item.cls = FamilyClass(t)

(***************************************************************************)
(* C11: save() called with a file path as its only argument.               *)
(***************************************************************************)
\* C11: after item.save(file_path), file_path a path with a supported
\* extension, the call has returned file_path and stored it as the item's
\* path, a file is at file_path, and loading file_path yields an item with
\* the saved name, content type and content.
C11_SaveToGivenPath ==
    (last.op = "save" /\ last.filename = <<>> /\ last.base_dir # <<>>) =>
        LET file_path == last.base_dir[1]
        IN  suffix(file_path) \in {".yaml", ".yml", ".json"} =>
              /\ last.res.tag = "ok"
              /\ last.res.item.path = <<file_path>>
              /\ Resolve(file_path) \in DOMAIN fs
              /\ LET r == load(fs, file_path)
                 IN  /\ r.tag = "ok"
                     /\ r.item.name = last.item.name
                     /\ r.item.content_type = last.item.content_type
                     /\ r.item.content = last.item.content

(***************************************************************************)
(* C12: save() to a destination with an unsupported extension.             *)
(***************************************************************************)
\* C12: a step save(base_dir, filename) whose file name has an extension
\* other than .yaml, .yml and .json fails with ValueError and creates no
\* file and no directory.
C12_UnsupportedLeavesNothing ==
    [][ (last'.op = "save" /\ last'.filename # <<>>
         /\ suffix(last'.filename[1]) \notin {"", ".yaml", ".yml", ".json"}) =>
            /\ last'.res = Raise("ValueError")
            /\ fs' = fs
            /\ dirs' = dirs ]_vars

(***************************************************************************)
(* C13: add_item persists under the manager's directory of the type.       *)
(***************************************************************************)
\* C13: whenever add_item accepted an item, the path it returned and stored
\* in the item names a file under content_dirs[item.content_type].
C13_AddPersistsUnderContentDir ==
    (last.op = "add" /\ last.res.tag = "ok") =>
        LET p == Resolve(last.res.item.path[1])
        IN  /\ IsPrefix(content_dirs(last.item.content_type).dirs, p.dirs)
            /\ p \in DOMAIN fs

(***************************************************************************)
(* C14: get_item resolves duplicates by extension.                         *)
(***************************************************************************)
\* The first of .yaml, .yml, .json that a set of files has.
BestExt(S) ==
    IF \E p \in S : p.ext = ".yaml" THEN ".yaml"
    ELSE IF \E p \in S : p.ext = ".yml" THEN ".yml"
    ELSE ".json"

\* C14: when files of the name exist under the type's directory, get_item
\* resolves to one with the first extension present in the order .yaml,
\* .yml, .json, whatever the order in which the files are enumerated: its
\* outcome is the outcome of loading such a file.
C14_ExtensionOrder ==
    LET found == Candidates(fs, last.ctype, last.name)
    IN  (last.op = "get" /\ found # {}) =>
            \E p \in found : p.ext = BestExt(found) /\ last.res = load(fs, p)

\* C14 witness: get_item returned an item while files of the name existed
\* with two extensions.
C14_Witness ==
    /\ last.op = "get"
    /\ last.res.tag = "ok"
    /\ Cardinality({ p.ext : p \in Candidates(fs, last.ctype, last.name) }) >= 2

(***************************************************************************)
(* C15: get_item and direct versus nested matches.                         *)
(***************************************************************************)
\* The files of the name directly in the type's directory.
DirectCandidates(f, content_type, name) ==
    { p \in Candidates(f, content_type, name) : p.dirs = content_dirs(content_type).dirs }

\* C15: when a file of the name exists directly in the type's directory,
\* under any supported extension, get_item resolves to a direct file and
\* never to one in a nested directory.
C15_DirectMatchFirst ==
    LET direct == DirectCandidates(fs, last.ctype, last.name)
    IN  (last.op = "get" /\ direct # {}) =>
            \E p \in direct : last.res = load(fs, p)

(***************************************************************************)
(* C16: the percentages sync_to_tool reports.                              *)
(***************************************************************************)
NonDecreasing(seq) == \A k \in 1..(Len(seq) - 1) : seq[k] <= seq[k + 1]

CountCalls(calls, content_type, name) ==
    Cardinality({ k \in DOMAIN calls :
                    calls[k].content_type = content_type /\ calls[k].name = name })

\* C17: in a run in which no call raised, whatever the calls returned,
\* sync_item was called once for each persisted item of a supported type and
\* not at all for anything else.
C17_SyncsEachSupportedItemOnce ==
    (last.op = "sync" /\ ~last.adapter.supported_raises
     /\ \A k \in DOMAIN last.outcomes : last.outcomes[k] # "raise") =>
        /\ \A k \in DOMAIN last.calls : last.calls[k].content_type \in last.adapter.supported
        /\ \A t \in last.adapter.supported, n \in LookupNames :
              CountCalls(last.calls, t, n) = IF Stored(fs, t, n) THEN 1 ELSE 0

(***************************************************************************)
(* C18: the result of sync_to_tool.                                        *)
(***************************************************************************)
\* C18: sync_to_tool returns false exactly when an exception occurred, in
\* get_supported_content_types or in a sync_item call, and true otherwise,
\* whatever the sync_item calls returned.
C18_ResultIgnoresReturnValues ==
    last.op = "sync" =>
        /\ last.res \in { True, False }
        /\ last.res = False <=>
              \/ last.adapter.supported_raises
              \/ \E k \in DOMAIN last.outcomes : last.outcomes[k] = "raise"

\* C18 witness: a run in which every sync_item call returned false, two
\* calls at least, returned true.
C18_Witness ==
    /\ last.op = "sync"
    /\ Len(last.calls) >= 2
    /\ \A k \in DOMAIN last.outcomes : last.outcomes[k] = "false"
    /\ last.res = True

(***************************************************************************)
(* C19: sync_item of the concrete adapters never raises.                   *)
(***************************************************************************)
\* C19: every sync_item call of a concrete adapter, on an item of any
\* content type and whatever I/O failure it meets, returns true or false.
C19_SyncItemNeverRaises ==
    last.op = "sync_item" => last.res \in { True, False }

\* C19 witness: a sync_item call that met an I/O failure returned false.
C19_Witness ==
    /\ last.op = "sync_item"
    /\ last.io # "ok"
    /\ last.item.content_type \in last.adapter.supported
    /\ last.res = False

(***************************************************************************)
(* C20: a Profile of another tool is skipped.                              *)
(***************************************************************************)
\* C20: a step sync_item(profile) of an adapter whose tool name differs from
\* the profile's tool leaves every file as it was and does not return false.
C20_ForeignProfileSkipped ==
    [][ (last'.op = "sync_item" /\ last'.item.cls = "Profile"
         /\ last'.item.tool # tool_name(last'.adapter.cls)) =>
            /\ fs' = fs
            /\ last'.res = True ]_vars

(***************************************************************************)
(* C21: each adapter's manifest is rebuilt wholesale on every sync.  Of    *)
(* the three adapters only Gemini's keeps a manifest, the prompt_templates *)
(* of config.json.  After a pass of the Gemini adapter in which every      *)
(* sync_item call returned true, the manifest holds an entry for exactly   *)
(* the rules synced in that pass.                                          *)
(***************************************************************************)
PassRules == { last.calls[k].name : k \in { j \in DOMAIN last.calls :
                                             last.calls[j].content_type = RULE } }

C21_ManifestIsThePass ==
    ( /\ last.op = "pass"
      /\ last.adapter.cls = "GeminiAdapter"
      /\ \A k \in DOMAIN last.outcomes : last.outcomes[k] = "true"
      /\ read_config(fs) = True )
    => fs[config_file].data.prompt_templates = PassRules

(***************************************************************************)
(* C22: a second pass of the same adapter over an unchanged store, meeting *)
(* the same I/O conditions as the first (in particular: none failing),     *)
(* leaves every file of the tool's configuration directory as the first    *)
(* pass left it.                                                           *)
(***************************************************************************)
C22_SecondPassChangesNothing ==
    [][ ( /\ last'.op = "pass"
          /\ last'.repeat
          /\ last'.items = last.items
          /\ last'.ios = last.ios )
        => fs' = fs ]_vars

\* A pass that wrote the artifacts of two rules without failure was run again.
C22_Witness ==
    /\ last.op = "pass"
    /\ last.repeat
    /\ Len(last.calls) = 2
    /\ \A k \in DOMAIN last.ios : last.ios[k] = "ok"
    /\ \A k \in DOMAIN last.outcomes : last.outcomes[k] = "true"

(***************************************************************************)
(* C23: constructing an adapter on a configuration root that an earlier    *)
(* instance initialised, and possibly synced into, leaves every existing   *)
(* file unchanged; a second GeminiAdapter does not reset config.json.      *)
(***************************************************************************)
C23_ConstructionKeepsFiles ==
    [][ last'.op = "construct"
        => \A q \in DOMAIN fs : q \in DOMAIN fs' /\ fs'[q] = fs[q] ]_vars

\* A GeminiAdapter was constructed on a root whose config.json holds a
\* registered prompt template and a setting changed by a profile.
C23_Witness ==
    /\ last.op = "construct"
    /\ last.adapter.cls = "GeminiAdapter"
    /\ read_config(fs) = True
    /\ fs[config_file].data.prompt_templates # {}
    /\ fs[config_file].data.values["model"] # "default"

(***************************************************************************)
(* C24: no cascading delete.  A successful delete_item(type, name) removes *)
(* exactly one file and leaves every other file as it was, and get_item of *)
(* every other <<type, name>> has the outcomes it had before the delete.   *)
(***************************************************************************)
C24_DeleteRemovesOneFile ==
    [][ (last'.op = "delete" /\ last'.res = True)
        => /\ \E q \in DOMAIN fs : DOMAIN fs' = DOMAIN fs \ { q }
           /\ \A p \in DOMAIN fs' : fs'[p] = fs[p]
           /\ \A tn \in Lookups :
                tn # <<last'.ctype, last'.name>>
                => get_item(fs', tn[1], tn[2]) = get_item(fs, tn[1], tn[2]) ]_vars

\* An item was deleted while an item of another type or name is stored and
\* returned by get_item.
C24_Witness ==
    /\ last.op = "delete"
    /\ last.res = True
    /\ \E tn \in Lookups :
        /\ tn # <<last.ctype, last.name>>
        /\ \E r \in get_item(fs, tn[1], tn[2]) : r.tag = "ok"

(***************************************************************************)
(* C25: add_item never alters or destroys the persisted item of another    *)
(* name.  An item that get_item returned under its own name before a       *)
(* successful add_item of an item of a different name is returned          *)
(* unchanged after it.                                                     *)
(***************************************************************************)
C25_AddKeepsOtherNames ==
    [][ (last'.op = "add" /\ last'.res.tag = "ok")
        => \A tn \in Lookups :
             tn[2] # last'.name
             => \A r \in get_item(fs, tn[1], tn[2]) :
                  (r.tag = "ok" /\ r.item.name = tn[2])
                  => r \in get_item(fs', tn[1], tn[2]) ]_vars

(***************************************************************************)
(* C26: persisting a changed detached copy keeps lookup consistent.  When  *)
(* an item that came from the store is given another name or content by    *)
(* assignment (values the validation accepts) and add_item(item,           *)
(* overwrite=True) succeeds, get_item(item.content_type, item.name)        *)
(* returns an item of the new name and content, and no other name answers  *)
(* with that item.                                                         *)
(***************************************************************************)
C26_ChangedCopyFoundByItsName ==
    [][ ( /\ last.op = "assign"
          /\ last.res.item.path # <<>>
          /\ last'.op = "add"
          /\ last'.overwrite
          /\ last'.item = last.res.item
          /\ last'.res.tag = "ok"
          /\ last'.item.name # <<>>
          /\ last'.item.content.kind = "dict" )
        => /\ \A r \in get_item(fs', last'.item.content_type, last'.item.name) :
                /\ r.tag = "ok"
                /\ r.item.name = last'.item.name
                /\ r.item.content = last'.item.content
           /\ \A n \in { <<"a", "b">>, <<"c", "d">> } \ { last'.item.name } :
                \A r \in get_item(fs', last'.item.content_type, n) :
                    r.tag = "ok" => r.item.name # last'.item.name ]_vars

(***************************************************************************)
(* C27: every document the manager persists satisfies the item invariants: *)
(* no file written by add_item holds an empty name, a content that is not  *)
(* a mapping or a workflow without steps, and the file of a rule can be    *)
(* loaded again.                                                           *)
(***************************************************************************)
DocumentValid(text) ==
    text.fmt \in { "yaml", "json" }
    => /\ text.data.name # <<>>
       /\ text.data.content.kind = "dict"
       /\ text.data.content_type = WORKFLOW => "steps" \in text.data.content.skeys

C27_PersistedDocumentsValid ==
    \A q \in DOMAIN fs :
        /\ DocumentValid(fs[q])
        /\ fs[q].data.content_type \in { RULE, GLOBAL_RULE } => load(fs, q).tag = "ok"

(***************************************************************************)
(* C28: distinct items produce distinct artifacts.  For two items of types *)
(* the adapter supports that differ in content type or name, the files     *)
(* left by syncing one and then the other, on the files an earlier call of *)
(* the adapter left, do not depend on the order.                           *)
(***************************************************************************)
SyncedInOrder(cls, a, b) ==
    sync_item(cls, sync_item(cls, fs, a, "ok").fs, b, "ok").fs

C28_DistinctItemsDistinctArtifacts ==
    \A cls \in AdapterClasses :
        (last.op = "sync_item" /\ last.adapter.cls = cls)
        => \A a, b \in { i \in AdapterItems :
                           i.content_type \in get_supported_content_types(cls) } :
             <<a.content_type, a.name>> # <<b.content_type, b.name>>
             => SyncedInOrder(cls, a, b) = SyncedInOrder(cls, b, a)

(***************************************************************************)
(* C29: the capability declaration and sync_item agree.  A sync_item call  *)
(* with an item whose content type is not in get_supported_content_types() *)
(* returns false and writes no file.                                       *)
(***************************************************************************)
C29_UnsupportedTypeNotSynced ==
    [][ ( /\ last'.op = "sync_item"
          /\ last'.item.content_type \notin get_supported_content_types(last'.adapter.cls) )
        => (last'.res = False /\ fs' = fs) ]_vars

(***************************************************************************)
(* C30: sync_to_tool never propagates an exception to its caller:          *)
(* whichever collaborator fails, get_supported_content_types, a sync_item  *)
(* call or the progress callback, the call returns true or false, and      *)
(* false if one of them raised.                                            *)
(***************************************************************************)
C30_SyncNeverPropagates ==
    last.op = "sync"
    => /\ last.res \in { True, False }
       /\ last.raised => last.res = False

====
